---- MODULE Spec2Model ----
(***************************************************************************)
(* A model of convert.py, the ACIP-to-TEI converter of acip-db-import.     *)
(*                                                                         *)
(* Strings are sequences of one-character strings.  The markup that the    *)
(* converter synthesises is held as multi-character tokens that contain    *)
(* no whitespace, bracket or parenthesis (see the section on convert_line).*)
(***************************************************************************)
EXTENDS Integers, Sequences, FiniteSets, TLC

VARIABLES
    pc,          \* position of the driver that calls the function under study
    text,        \* balance_parentheses: the argument / returned string
    c1,          \* balance_parentheses: opening delimiter
    c2,          \* balance_parentheses: closing delimiter
    text0,       \* balance_parentheses: the argument of the first call
    calls,       \* balance_parentheses: number of calls made so far
    content,     \* parse_document: the document handed to it
    pages,       \* parse_document: the list it returns
    PAGE_COUNT,  \* the module-level counter of convert.py
    line_str,    \* convert_line: the paragraph handed to it
    variant_mode,\* convert_line: its second argument
    line,        \* convert_line: its locals and return value once it has run
    txt_files,   \* convert_all: the sorted list of input files (stem and text)
    file_i,      \* convert_all: index of the file the loop is at
    sources,     \* convert_all: stems of the source files copied so far
    written,     \* convert_all: the documents written so far
    errors,      \* convert_all: stems of the files whose error was logged
    rows,        \* process_catalog: the rows of the catalog
    import_calls,\* process_tree: the calls of import_row made, in order
    dirty,       \* sanitize_str: the string handed to it
    sanitized    \* sanitize_str: the string it returns

balanceVars == <<text, c1, c2, text0, calls>>
parseVars == <<content, pages>>
lineVars == <<line_str, variant_mode, line>>
batchVars == <<txt_files, file_i, sources, written, errors>>
treeVars == <<rows, import_calls>>
sanitizeVars == <<dirty, sanitized>>

vars == <<pc, text, c1, c2, text0, calls, content, pages, PAGE_COUNT,
          line_str, variant_mode, line,
          txt_files, file_i, sources, written, errors, rows, import_calls,
          dirty, sanitized>>

(***************************************************************************)
(* Bounds of the model.                                                    *)
(***************************************************************************)
MaxLen == 3          \* length of the strings handed to balance_parentheses
MaxCalls == 2        \* successive balance_parentheses calls on one string
MaxDocPieces == 3    \* number of pieces a document is concatenated from
MaxLinePieces == 3   \* number of pieces a paragraph is concatenated from
MaxAnnotPieces == 3  \* number of pieces an annotated paragraph is concatenated from
MaxFiles == 2        \* number of files convert_all finds
MaxRows == 3         \* number of rows of the catalog
MaxDirtyLen == 4     \* length of the strings handed to sanitize_str

(***************************************************************************)
(* Generic string helpers (Python str methods).                            *)
(***************************************************************************)
None == <<"None">>

RECURSIVE Count(_, _)
\* str.count for a one-character needle
Count(s, c) ==
    IF s = <<>> THEN 0
    ELSE (IF Head(s) = c THEN 1 ELSE 0) + Count(Tail(s), c)

RECURSIVE Rep(_, _)
\* c * n
Rep(c, n) == IF n <= 0 THEN <<>> ELSE <<c>> \o Rep(c, n - 1)

RECURSIVE Concat(_)
\* ''.join(list of strings)
Concat(ss) == IF ss = <<>> THEN <<>> ELSE Head(ss) \o Concat(Tail(ss))

\* the characters Python's \s / str.strip() treat as white space
Whitespace == {" ", "\n", "\t", "\r"}

IsSpace(c) == c \in Whitespace

RECURSIVE LStrip(_, _)
\* str.lstrip(chars)
LStrip(s, chars) ==
    IF s # <<>> /\ Head(s) \in chars THEN LStrip(Tail(s), chars) ELSE s

RECURSIVE RStrip(_, _)
\* str.rstrip(chars)
RStrip(s, chars) ==
    IF s # <<>> /\ s[Len(s)] \in chars
    THEN RStrip(SubSeq(s, 1, Len(s) - 1), chars) ELSE s

\* str.strip(chars)
Strip(s, chars) == LStrip(RStrip(s, chars), chars)

\* all sequences over S of length at most n
SeqsUpTo(S, n) == UNION {[1..k -> S] : k \in 0..n}

(***************************************************************************)
(* balance_parentheses                                                     *)
(***************************************************************************)
\* a balance that appends closers / prepends openers
balance_symmetric(t, o, c) ==
    LET open_count == Count(t, o)
        close_count == Count(t, c)
    IN  IF open_count > close_count
        THEN t \o Rep(c, open_count - close_count)
        ELSE IF close_count > open_count
        THEN Rep(o, close_count - open_count) \o t
        ELSE t

balance_parentheses(t, o, c) ==
    LET open_count == Count(t, o)
        close_count == Count(t, c)
    IN  IF open_count > close_count
        THEN t \o Rep(o, open_count - close_count)
        ELSE IF close_count > open_count
        THEN Rep(c, close_count - open_count) \o t
        ELSE t

(***************************************************************************)
(* clean_page_number                                                       *)
(***************************************************************************)
Digits == {"0", "1", "2", "3", "4", "5", "6", "7", "8", "9"}

LowerLetters ==
    {"a", "b", "c", "d", "e", "f", "g", "h", "i", "j", "k", "l", "m",
     "n", "o", "p", "q", "r", "s", "t", "u", "v", "w", "x", "y", "z"}

\* upper-case letters with their lower-case forms
CasePairs ==
    { <<"A", "a">>, <<"B", "b">>, <<"C", "c">>, <<"D", "d">>, <<"E", "e">>, <<"F", "f">>,
      <<"G", "g">>, <<"H", "h">>, <<"I", "i">>, <<"J", "j">>, <<"K", "k">>, <<"L", "l">>,
      <<"M", "m">>, <<"N", "n">>, <<"O", "o">>, <<"P", "p">>, <<"Q", "q">>, <<"R", "r">>,
      <<"S", "s">>, <<"T", "t">>, <<"U", "u">>, <<"V", "v">>, <<"W", "w">>, <<"X", "x">>,
      <<"Y", "y">>, <<"Z", "z">> }

UpperLetters == {pr[1] : pr \in CasePairs}

\* str.isalpha() on one character
IsAlpha(c) == c \in LowerLetters \cup UpperLetters

\* str.lower() on one character
Lower(c) ==
    IF c \in UpperLetters
    THEN (CHOOSE pr \in CasePairs : pr[1] = c)[2]
    ELSE c

RECURSIVE MapLower(_)
MapLower(s) == IF s = <<>> THEN <<>> ELSE <<Lower(Head(s))>> \o MapLower(Tail(s))

RECURSIVE Keep(_, _)
\* re.sub(r'[^...]', '', s): keep the characters of the class
Keep(s, class) ==
    IF s = <<>> THEN <<>>
    ELSE (IF Head(s) \in class THEN <<Head(s)>> ELSE <<>>) \o Keep(Tail(s), class)

\* a cleaning that returns None for a label that cleans to nothing
clean_page_number_empty_none(page_num) ==
    IF page_num = None THEN None
    ELSE LET r == Keep(MapLower(LStrip(page_num, {"0"})), Digits \cup {"a", "b"})
         IN  IF r = <<>> THEN None ELSE r

\* a cleaning that only strips the zeros and lowercases
clean_page_number_no_filter(page_num) ==
    IF page_num = None THEN None
    ELSE MapLower(LStrip(page_num, {"0"}))

clean_page_number(page_num) ==
    IF page_num = None THEN None
    ELSE Keep(MapLower(LStrip(page_num, {"0"})), Digits \cup {"a", "b"})

(***************************************************************************)
(* parse_document                                                          *)
(***************************************************************************)
RECURSIVE FindMarker(_, _)
\* leftmost position >= i where r'@+\S+' matches, 0 when there is none
FindMarker(s, i) ==
    IF i >= Len(s) THEN 0
    ELSE IF s[i] = "@" /\ ~IsSpace(s[i + 1]) THEN i
    ELSE FindMarker(s, i + 1)

RECURSIVE RunEnd(_, _)
\* last position of the run of non-space characters that holds position i
RunEnd(s, i) ==
    IF i < Len(s) /\ ~IsSpace(s[i + 1]) THEN RunEnd(s, i + 1) ELSE i

RECURSIVE page_splits(_)
\* re.split(r'(@+\S+)', content): text, marker, text, ..., text
page_splits(s) ==
    LET p == FindMarker(s, 1)
    IN  IF p = 0 THEN <<s>>
        ELSE LET e == RunEnd(s, p)
             IN  <<SubSeq(s, 1, p - 1), SubSeq(s, p, e)>>
                     \o page_splits(SubSeq(s, e + 1, Len(s)))

\* re.match(r'@+(\S+)', part) succeeds
page_match(part) ==
    /\ Len(part) >= 2
    /\ part[1] = "@"
    /\ ~IsSpace(part[2])

\* page_match.group(1): the run after the leading '@'s ('@' if nothing follows)
page_match_group1(part) ==
    LET run == SubSeq(part, 1, RunEnd(part, 1))
        rest == LStrip(run, {"@"})
    IN  IF rest = <<>> THEN <<"@">> ELSE rest

RECURSIVE SplitBlankLines(_, _)
\* part.split('\n\n'); acc is the chunk being read
SplitBlankLines(s, acc) ==
    IF s = <<>> THEN <<acc>>
    ELSE IF Len(s) >= 2 /\ s[1] = "\n" /\ s[2] = "\n"
    THEN <<acc>> \o SplitBlankLines(SubSeq(s, 3, Len(s)), <<>>)
    ELSE SplitBlankLines(Tail(s), Append(acc, Head(s)))

RECURSIVE ReplaceNewlines(_)
\* p.replace('\n', ' ')
ReplaceNewlines(s) ==
    IF s = <<>> THEN <<>>
    ELSE <<IF Head(s) = "\n" THEN " " ELSE Head(s)>> \o ReplaceNewlines(Tail(s))

RECURSIVE ReplaceDoubleSpace(_)
\* p.replace('  ', ' '): one left-to-right pass
ReplaceDoubleSpace(s) ==
    IF s = <<>> THEN <<>>
    ELSE IF Len(s) >= 2 /\ s[1] = " " /\ s[2] = " "
    THEN <<" ">> \o ReplaceDoubleSpace(SubSeq(s, 3, Len(s)))
    ELSE <<Head(s)>> \o ReplaceDoubleSpace(Tail(s))

\* the paragraph made from one chunk
para(p) == Strip(ReplaceDoubleSpace(ReplaceNewlines(p)), Whitespace)

RECURSIVE ParasOf(_)
ParasOf(chunks) ==
    IF chunks = <<>> THEN <<>>
    ELSE (IF Strip(Head(chunks), Whitespace) # <<>>
          THEN <<para(Head(chunks))>> ELSE <<>>) \o ParasOf(Tail(chunks))

\* paras: the paragraphs of a text part (empty when part.strip() is empty)
paras(part) ==
    IF Strip(part, Whitespace) = <<>> THEN <<>>
    ELSE ParasOf(SplitBlankLines(part, <<>>))

Page(number, cont) == [number |-> number, content |-> cont]

\* the loop's state before the first part
LoopInit == [pages |-> <<>>, current_page |-> None, current_content |-> <<>>, count |-> 0]

\* an iteration that forgets "current_content = []" at a marker
LoopStep_no_reset(st, part) ==
    IF page_match(part)
    THEN LET flush == st.current_page # None \/ st.current_content # <<>>
         IN  [pages |-> IF flush
                        THEN Append(st.pages,
                                    Page(clean_page_number(st.current_page),
                                         st.current_content))
                        ELSE st.pages,
              current_page |-> page_match_group1(part),
              current_content |-> st.current_content,
              count |-> IF flush THEN st.count + 1 ELSE st.count]
    ELSE [st EXCEPT !.current_content = st.current_content \o paras(part)]

\* one iteration of "for part in page_splits"
LoopStep(st, part) ==
    IF page_match(part)
    THEN LET flush == st.current_page # None \/ st.current_content # <<>>
         IN  [pages |-> IF flush
                        THEN Append(st.pages,
                                    Page(clean_page_number(st.current_page),
                                         st.current_content))
                        ELSE st.pages,
              current_page |-> page_match_group1(part),
              current_content |-> <<>>,
              count |-> IF flush THEN st.count + 1 ELSE st.count]
    ELSE [st EXCEPT !.current_content = st.current_content \o paras(part)]

RECURSIVE Loop(_, _)
Loop(st, parts) ==
    IF parts = <<>> THEN st ELSE Loop(LoopStep(st, Head(parts)), Tail(parts))

\* a last page that is appended whether or not it exists
AddLastPage_always(st) ==
    Append(st.pages, Page(clean_page_number(st.current_page), st.current_content))

\* "Add last page if exists"
AddLastPage(st) ==
    IF st.current_page # None \/ st.current_content # <<>>
    THEN Append(st.pages, Page(clean_page_number(st.current_page), st.current_content))
    ELSE st.pages

\* the state of the loop after the last part of the balanced document
LoopResult(doc) == Loop(LoopInit, page_splits(balance_parentheses(doc, "(", ")")))

\* pages as they stand before the first-page heuristic
CollectPages(doc) == AddLastPage(LoopResult(doc))

\* a heuristic that does not look at the third page
first_page_heuristic_two_pages(ps) ==
    IF /\ Len(ps) > 1
       /\ ps[1].number = None
       /\ (ps[2].number = <<"1", "a">> \/ ps[2].number = <<"1">>)
    THEN [ps EXCEPT ![1].number = <<"1", "a">>, ![2].number = <<"1", "b">>]
    ELSE ps

\* "if no first page and then 1a then 2a, then first page is 1a, then 1b then 2a"
first_page_heuristic(ps) ==
    IF /\ Len(ps) > 2
       /\ ps[1].number = None
       /\ (ps[2].number = <<"1", "a">> \/ ps[2].number = <<"1">>)
       /\ ps[3].number = <<"2", "a">>
    THEN [ps EXCEPT ![1].number = <<"1", "a">>, ![2].number = <<"1", "b">>]
    ELSE ps

\* the document pieces the model concatenates documents from
DocPieces ==
    { <<"x">>, <<" ">>, <<"\n">>, <<"\n", "\n">>, <<"(">>, <<")">>,
      <<"@">>, <<"@", "1">>, <<"@", "1", "a">>, <<"@", "2", "a">>,
      <<" ", "@", "2", "a">>, <<"b">>, <<"0">>, <<"A">> }

Documents == {Concat(ps) : ps \in SeqsUpTo(DocPieces, MaxDocPieces)}

\* the strings handed to balance_parentheses
BalanceAlphabet == {"(", ")", "[", "]", "a"}

BalanceTexts == SeqsUpTo(BalanceAlphabet, MaxLen)

(***************************************************************************)
(* Markup.  A string is a sequence of tokens: single characters, and the   *)
(* element names and attributes of the synthesised markup, which hold no   *)
(* character any rule of the converter looks at (no white space, bracket,  *)
(* parenthesis, '<', '>', '&', '/', '?', '*', '#', digit or letter that is *)
(* matched on its own).  '<lb/>' is <<"<", "lb", "/", ">">>.               *)
(***************************************************************************)
ElementNames ==
    {"lb", "gap", "hi", "note", "figure", "head", "choice", "orig", "corr", "unclear",
     "TEI", "teiHeader", "title", "text", "body", "pb"}

AttrReason == "reason=\"illegible\""
AttrUnit == "unit=\"syllable\""
AttrQuantity == "quantity=\"1\""
AttrRend == "rend=\"small\""
AttrType == "type=\"editorial\""
AttrLangEn == "xml:lang=\"en\""
AttrCert == "cert=\"low\""

AttrXmlns == "xmlns=\"http://www.tei-c.org/ns/1.0\""
AttrLangBo == "xml:lang=\"bo\""
AttrSpace == "xml:space=\"preserve\""
AttrRendBlank == "rend=\"blank\""
\* n="...": the page label of a page break, which holds digits, 'a' and 'b' only
AttrN == "n=\"{page number}\""

Attributes ==
    {AttrReason, AttrUnit, AttrQuantity, AttrRend, AttrType, AttrLangEn, AttrCert,
     AttrXmlns, AttrLangBo, AttrSpace, AttrRendBlank, AttrN}

\* '<lb/>'
LB == <<"<", "lb", "/", ">">>

\* '<gap reason="illegible" unit="syllable" quantity="1"/>'
GAP == <<"<", "gap", " ", AttrReason, " ", AttrUnit, " ", AttrQuantity, "/", ">">>

\* '<hi rend="small">' and '</hi>'
HI_OPEN == <<"<", "hi", " ", AttrRend, ">">>
HI_CLOSE == <<"<", "/", "hi", ">">>

\* '<note type="editorial" xml:lang="en">' and '</note>'
NOTE_OPEN == <<"<", "note", " ", AttrType, " ", AttrLangEn, ">">>
NOTE_CLOSE == <<"<", "/", "note", ">">>

\* '<figure><head>' and '</head></figure>'
FIGURE_OPEN == <<"<", "figure", ">", "<", "head", ">">>
FIGURE_CLOSE == <<"<", "/", "head", ">", "<", "/", "figure", ">">>

\* 'Landza script on page'
LandzaText ==
    <<"L", "a", "n", "d", "z", "a", " ", "s", "c", "r", "i", "p", "t", " ",
      "o", "n", " ", "p", "a", "g", "e">>

\* 'picture on page'
PictureText ==
    <<"p", "i", "c", "t", "u", "r", "e", " ", "o", "n", " ", "p", "a", "g", "e">>

(***************************************************************************)
(* xml.sax.saxutils.escape                                                 *)
(***************************************************************************)
EscapeChar(c) ==
    CASE c = "&" -> <<"&", "a", "m", "p", ";">>
      [] c = "<" -> <<"&", "l", "t", ";">>
      [] c = ">" -> <<"&", "g", "t", ";">>
      [] OTHER -> <<c>>

RECURSIVE escape_no_amp(_)
\* an escape that leaves '&' alone
escape_no_amp(s) ==
    IF s = <<>> THEN <<>>
    ELSE (IF Head(s) = "&" THEN <<"&">> ELSE EscapeChar(Head(s)))
             \o escape_no_amp(Tail(s))

RECURSIVE escape(_)
escape(s) == IF s = <<>> THEN <<>> ELSE EscapeChar(Head(s)) \o escape(Tail(s))

(***************************************************************************)
(* The transliteration adapter: ACIPtoEWTS, pyewts.toUnicode and the       *)
(* post-pass of ACIP_transform.  Tibetan characters are named tokens.      *)
(***************************************************************************)
TSHEG == "U+0F0B"
SHAD == "U+0F0D"
NGA == "U+0F44"

\* lower-case roman letters with the token of the Tibetan letter they give
BoPairs ==
    { <<"a", "bo:a">>, <<"b", "bo:b">>, <<"c", "bo:c">>, <<"d", "bo:d">>, <<"e", "bo:e">>,
      <<"f", "bo:f">>, <<"g", "bo:g">>, <<"h", "bo:h">>, <<"i", "bo:i">>, <<"j", "bo:j">>,
      <<"k", "bo:k">>, <<"l", "bo:l">>, <<"m", "bo:m">>, <<"n", "bo:n">>, <<"o", "bo:o">>,
      <<"p", "bo:p">>, <<"q", "bo:q">>, <<"r", "bo:r">>, <<"s", "bo:s">>, <<"t", "bo:t">>,
      <<"u", "bo:u">>, <<"v", "bo:v">>, <<"w", "bo:w">>, <<"x", "bo:x">>, <<"y", "bo:y">>,
      <<"z", "bo:z">> }

RECURSIVE ACIPtoEWTS(_)
\* ACIP capitals are EWTS lower-case letters; other characters are kept
ACIPtoEWTS(s) ==
    IF s = <<>> THEN <<>> ELSE <<Lower(Head(s))>> \o ACIPtoEWTS(Tail(s))

RECURSIVE toUnicode(_)
\* 'ng' is NGA, a letter its Tibetan letter, a space a tsheg, ',' a shad;
\* any other token is kept
toUnicode(s) ==
    IF s = <<>> THEN <<>>
    ELSE IF Len(s) >= 2 /\ s[1] = "n" /\ s[2] = "g"
    THEN <<NGA>> \o toUnicode(SubSeq(s, 3, Len(s)))
    ELSE <<CASE Head(s) \in LowerLetters ->
                    (CHOOSE pr \in BoPairs : pr[1] = Head(s))[2]
             [] Head(s) = " " -> TSHEG
             [] Head(s) = "," -> SHAD
             [] OTHER -> Head(s)>> \o toUnicode(Tail(s))

RECURSIVE ReplaceAll(_, _, _)
\* str.replace(pat, rep) for a non-empty pat
ReplaceAll(s, pat, rep) ==
    IF Len(s) < Len(pat) THEN s
    ELSE IF SubSeq(s, 1, Len(pat)) = pat
    THEN rep \o ReplaceAll(SubSeq(s, Len(pat) + 1, Len(s)), pat, rep)
    ELSE <<Head(s)>> \o ReplaceAll(Tail(s), pat, rep)

ACIP_transform(s, last_is_shad) ==
    LET ewts == ACIPtoEWTS(s)
        startswithspace == ewts # <<>> /\ ewts[1] = " "
        uni == ReplaceAll(toUnicode(ewts), <<NGA, SHAD>>, <<NGA, TSHEG, SHAD>>)
    IN  IF startswithspace
        THEN <<IF ~last_is_shad THEN TSHEG ELSE " ">> \o uni
        ELSE uni

(***************************************************************************)
(* The rewrite rules of convert_line                                       *)
(***************************************************************************)
RECURSIVE IndexFrom(_, _, _)
\* str.find(c, i): first position >= i holding c, 0 when there is none
IndexFrom(s, c, i) ==
    IF i > Len(s) THEN 0
    ELSE IF s[i] = c THEN i
    ELSE IndexFrom(s, c, i + 1)

RECURSIVE Contains(_, _)
\* pat in s
Contains(s, pat) ==
    IF Len(s) < Len(pat) THEN FALSE
    ELSE IF SubSeq(s, 1, Len(pat)) = pat THEN TRUE
    ELSE Contains(Tail(s), pat)

\* line 151-155: strip, then "add a tsheg at the end"
strip_line(s) ==
    LET t == Strip(s, Whitespace)
    IN  IF t # <<>> /\ (IsAlpha(t[Len(t)]) \/ t[Len(t)] = "'")
        THEN Append(t, " ")
        ELSE t

\* replace_parentheses
replace_parentheses(group1) ==
    IF group1 = <<>> THEN <<>> ELSE HI_OPEN \o group1 \o HI_CLOSE

RECURSIVE sub_parentheses(_)
\* re.sub(r'\(([^)]*)\)', replace_parentheses, line_str, flags=re.DOTALL)
sub_parentheses(s) ==
    IF s = <<>> THEN <<>>
    ELSE LET j == IndexFrom(s, ")", 2)
         IN  IF Head(s) = "(" /\ j # 0
             THEN replace_parentheses(SubSeq(s, 2, j - 1))
                      \o sub_parentheses(SubSeq(s, j + 1, Len(s)))
             ELSE <<Head(s)>> \o sub_parentheses(Tail(s))

RECURSIVE sub_editorial(_)
\* re.sub(r'\[#(.*?)\]', r'<note type="editorial" xml:lang="en">\1</note>', line_str)
sub_editorial(s) ==
    IF s = <<>> THEN <<>>
    ELSE LET j == IndexFrom(s, "]", 3)
             nl == IndexFrom(s, "\n", 3)
         IN  IF /\ Len(s) >= 3
                /\ s[1] = "[" /\ s[2] = "#"
                /\ j # 0
                /\ (nl = 0 \/ nl > j)
             THEN NOTE_OPEN \o SubSeq(s, 3, j - 1) \o NOTE_CLOSE
                      \o sub_editorial(SubSeq(s, j + 1, Len(s)))
             ELSE <<Head(s)>> \o sub_editorial(Tail(s))

RECURSIVE RunNotBracket(_, _)
\* last position of the run of characters other than '[' that starts at i
RunNotBracket(s, i) ==
    IF i < Len(s) /\ s[i + 1] # "[" THEN RunNotBracket(s, i + 1) ELSE i

RECURSIVE sub_figure(_)
\* re.sub(r'\[DD\d?\] ?([^[]+)', r'<figure><head>\1</head></figure>', line_str)
sub_figure(s) ==
    IF s = <<>> THEN <<>>
    ELSE LET \* position of the ']' that closes '[DD' or '[DDn'
             k == IF Len(s) >= 4 /\ s[4] \in Digits THEN 5 ELSE 4
             head == /\ Len(s) >= k
                     /\ s[1] = "[" /\ s[2] = "D" /\ s[3] = "D"
                     /\ s[k] = "]"
             \* first position of group 1: after the optional space when a
             \* character other than '[' follows it, else at the space itself
             g == IF /\ Len(s) >= k + 2
                     /\ s[k + 1] = " "
                     /\ s[k + 2] # "["
                  THEN k + 2 ELSE k + 1
             matched == head /\ Len(s) >= g /\ s[g] # "["
         IN  IF matched
             THEN LET e == RunNotBracket(s, g)
                  IN  FIGURE_OPEN \o SubSeq(s, g, e) \o FIGURE_CLOSE
                          \o sub_figure(SubSeq(s, e + 1, Len(s)))
             ELSE <<Head(s)>> \o sub_figure(Tail(s))

\* lines 162-179: the rules applied under every variant mode
common_rules(s) ==
    LET s1 == LB \o s
        s2 == ReplaceAll(s1, <<"[", "?", "]">>, GAP)
        s3 == sub_parentheses(s2)
        s4 == sub_editorial(s3)
        s5 == ReplaceAll(s4, <<"[", "L", "L", "]">>, NOTE_OPEN \o LandzaText \o NOTE_CLOSE)
        s6 == ReplaceAll(s5, <<"[", "D", "R", "]">>, NOTE_OPEN \o PictureText \o NOTE_CLOSE)
        s7 == ReplaceAll(s6, <<"{", "D", "D", "}">>, NOTE_OPEN \o PictureText \o NOTE_CLOSE)
    IN  sub_figure(s7)

(***************************************************************************)
(* Variant rules of convert_line                                           *)
(***************************************************************************)
RECURSIVE SkipSpaces(_, _)
\* first position >= i that holds no white space (Len(s) + 1 when none)
SkipSpaces(s, i) ==
    IF i <= Len(s) /\ IsSpace(s[i]) THEN SkipSpaces(s, i + 1) ELSE i

CHOICE_OPEN == <<"<", "choice", ">", "<", "orig", ">">>
ORIG_CLOSE == <<"<", "/", "orig", ">">>
CORR_OPEN == <<"<", "corr", ">">>
CORR_OPEN_LOW == <<"<", "corr", " ", AttrCert, ">">>
CHOICE_CLOSE == <<"<", "/", "corr", ">", "<", "/", "choice", ">">>
UNCLEAR_OPEN == <<"<", "unclear", " ", AttrReason, " ", AttrCert, ">">>
UNCLEAR_CLOSE == <<"<", "/", "unclear", ">">>

replace_variant(group1, group2) ==
    LET orig == Strip(group1, Whitespace)
        corr1 == LStrip(Strip(group2, Whitespace), {"*"})
        low == corr1 # <<>> /\ corr1[Len(corr1)] = "?"
        corr == RStrip(corr1, {"?"})
    IN  CHOICE_OPEN \o orig \o ORIG_CLOSE
            \o (IF low THEN CORR_OPEN_LOW ELSE CORR_OPEN) \o corr \o CHOICE_CLOSE

NoMatch == [ok |-> FALSE, g1 |-> <<>>, g2 |-> <<>>, end |-> 0]

\* (\S+)\s*\[([^\]]+)\] with the word starting at w: the longest word that a
\* bracketed, non-empty correction follows
word_match(s, w) ==
    IF w > Len(s) \/ IsSpace(s[w]) THEN NoMatch
    ELSE LET r == RunEnd(s, w)
             bracket(n) == IF n = r THEN SkipSpaces(s, r + 1) ELSE n + 1
             close(n) == IndexFrom(s, "]", bracket(n) + 1)
             good(n) == /\ bracket(n) <= Len(s)
                        /\ s[bracket(n)] = "["
                        /\ close(n) > bracket(n) + 1
             ns == {n \in w..r : good(n)}
         IN  IF ns = {} THEN NoMatch
             ELSE LET n == CHOOSE x \in ns : \A y \in ns : y <= x
                  IN  [ok |-> TRUE,
                       g1 |-> SubSeq(s, w, n),
                       g2 |-> SubSeq(s, bracket(n) + 1, close(n) - 1),
                       end |-> close(n)]

\* (?:^|\s+)(\S+)\s*\[([^\]]+)\] matched at position p
variant_match(s, p) ==
    LET at_start == IF p = 1 THEN word_match(s, 1) ELSE NoMatch
    IN  IF at_start.ok THEN at_start
        ELSE IF IsSpace(s[p]) THEN word_match(s, SkipSpaces(s, p))
        ELSE NoMatch

RECURSIVE sub_variant(_, _)
\* re.sub(r'(?:^|\s+)(\S+)\s*\[([^\]]+)\]', replace_variant, line_str), from p on
sub_variant(s, p) ==
    IF p > Len(s) THEN <<>>
    ELSE LET m == variant_match(s, p)
         IN  IF m.ok
             THEN replace_variant(m.g1, m.g2) \o sub_variant(s, m.end + 1)
             ELSE <<s[p]>> \o sub_variant(s, p + 1)

\* the characters of text.strip(" #!*[]()&")
NoteStrip == {" ", "#", "!", "*", "[", "]", "(", ")", "&"}

replace_unclear(group1) ==
    LET t == Strip(group1, Whitespace)
        tlower == MapLower(t)
    IN  IF t = <<"?">> THEN GAP
        ELSE IF \/ Contains(tlower, <<"p", "a", "g", "e">>)
                \/ Contains(tlower, <<"t", "e", "x", "t">>)
                \/ Contains(tlower, <<"m", "i", "s", "s", "i", "n", "g", " ">>)
        THEN NOTE_OPEN \o escape(Strip(t, NoteStrip)) \o NOTE_CLOSE
        ELSE UNCLEAR_OPEN \o RStrip(t, {"?"}) \o UNCLEAR_CLOSE

RECURSIVE sub_unclear(_)
\* re.sub(r'\[([^\]]+)\]', replace_unclear, line_str)
sub_unclear(s) ==
    IF s = <<>> THEN <<>>
    ELSE LET j == IndexFrom(s, "]", 2)
         IN  IF Head(s) = "[" /\ j > 2
             THEN replace_unclear(SubSeq(s, 2, j - 1))
                      \o sub_unclear(SubSeq(s, j + 1, Len(s)))
             ELSE <<Head(s)>> \o sub_unclear(Tail(s))

\* lines 182-211
variant_rules(s, mode) ==
    IF mode = 1 THEN sub_variant(s, 1) ELSE sub_unclear(s)

(***************************************************************************)
(* convert_text_components                                                 *)
(***************************************************************************)
\* tag_pattern.match(part)
is_tag(part) ==
    /\ part # <<>>
    /\ part[1] = "<"
    /\ IndexFrom(part, ">", 2) > 2

RECURSIVE tag_split(_, _)
\* tag_pattern.split(text); acc is the text read since the last tag
tag_split(s, acc) ==
    IF s = <<>> THEN <<acc>>
    ELSE IF is_tag(s)
    THEN LET j == IndexFrom(s, ">", 2)
         IN  <<acc, SubSeq(s, 1, j)>> \o tag_split(SubSeq(s, j + 1, Len(s)), <<>>)
    ELSE tag_split(Tail(s), Append(acc, Head(s)))

should_skip_tag(tag) == Contains(tag, <<AttrLangEn>>)

\* the grave accent (U+0060), which a TLA+ string cannot hold
GRAVE == "grave"

ShadChars == {",", GRAVE, ";"}

ComponentsInit == [result |-> <<>>, skip |-> FALSE, last_is_shad |-> FALSE]

\* an iteration that escapes the tags as it escapes the text
ComponentsStep_escape_tags(st, part) ==
    IF is_tag(part)
    THEN [st EXCEPT !.result = Append(st.result, escape(part)),
                    !.skip = should_skip_tag(part)]
    ELSE LET r0 == IF st.skip THEN part ELSE ACIP_transform(part, st.last_is_shad)
             r == IF st.last_is_shad THEN <<" ">> \o r0 ELSE r0
         IN  [result |-> Append(st.result, escape(r)),
              skip |-> st.skip,
              last_is_shad |-> /\ ~st.skip
                               /\ part # <<>>
                               /\ part[Len(part)] \in ShadChars]

\* one iteration of "for part in parts"
ComponentsStep(st, part) ==
    IF is_tag(part)
    THEN [st EXCEPT !.result = Append(st.result, part),
                    !.skip = should_skip_tag(part)]
    ELSE LET r0 == IF st.skip THEN part ELSE ACIP_transform(part, st.last_is_shad)
             r == IF st.last_is_shad THEN <<" ">> \o r0 ELSE r0
         IN  [result |-> Append(st.result, escape(r)),
              skip |-> st.skip,
              last_is_shad |-> /\ ~st.skip
                               /\ part # <<>>
                               /\ part[Len(part)] \in ShadChars]

RECURSIVE ComponentsLoop(_, _)
ComponentsLoop(st, parts) ==
    IF parts = <<>> THEN st
    ELSE ComponentsLoop(ComponentsStep(st, Head(parts)), Tail(parts))

RECURSIVE ComponentsTrace(_, _)
\* the loop's locals (result, skip, last_is_shad) at the start of each
\* iteration of "for part in parts"
ComponentsTrace(st, parts) ==
    IF parts = <<>> THEN <<>>
    ELSE <<st>> \o ComponentsTrace(ComponentsStep(st, Head(parts)), Tail(parts))

\* the list "result" of convert_text_components, one entry per part
component_results(s) == ComponentsLoop(ComponentsInit, tag_split(s, <<>>)).result

convert_text_components(s) == Concat(component_results(s))

(***************************************************************************)
(* is_valid_xml: well-formedness as the XML parser behind ET.fromstring    *)
(* decides it, over the tokens that can occur                              *)
(***************************************************************************)
\* tokens that can begin a name, and tokens that can continue one
IsNameStart(t) == IsAlpha(t) \/ t \in ElementNames

IsNameToken(t) == IsNameStart(t) \/ t \in Digits

RECURSIVE NameEnd(_, _)
\* last position of the run of name tokens that holds position i
NameEnd(s, i) ==
    IF i < Len(s) /\ IsNameToken(s[i + 1]) THEN NameEnd(s, i + 1) ELSE i

RECURSIVE FindPIEnd(_, _)
\* first position >= i where '?>' starts, 0 when there is none
FindPIEnd(s, i) ==
    IF i >= Len(s) THEN 0
    ELSE IF s[i] = "?" /\ s[i + 1] = ">" THEN i
    ELSE FindPIEnd(s, i + 1)

RECURSIVE AttrsEnd(_, _, _)
\* position after the attributes that start at i (white space, then one
\* attribute, repeatedly; trailing white space); 0 for a repeated attribute
AttrsEnd(s, i, seen) ==
    LET j == SkipSpaces(s, i)
    IN  IF j > i /\ j <= Len(s) /\ s[j] \in Attributes
        THEN IF s[j] \in seen THEN 0 ELSE AttrsEnd(s, j + 1, seen \cup {s[j]})
        ELSE j

EntityNames ==
    { <<"a", "m", "p">>, <<"l", "t">>, <<"g", "t">>,
      <<"a", "p", "o", "s">>, <<"q", "u", "o", "t">> }

RECURSIVE well_formed(_, _, _, _)
\* the document s is well formed from position i on, the elements of stack
\* being open and root_done telling that the root element is closed
well_formed(s, i, stack, root_done) ==
    IF i > Len(s) THEN stack = <<>> /\ root_done
    ELSE IF s[i] = "<"
    THEN IF i + 1 <= Len(s) /\ s[i + 1] = "?"
         THEN \* processing instruction '<?target ... ?>'
              IF i + 2 <= Len(s) /\ IsNameStart(s[i + 2])
              THEN LET e == NameEnd(s, i + 2)
                       q == FindPIEnd(s, e + 1)
                   IN  /\ MapLower(SubSeq(s, i + 2, e)) # <<"x", "m", "l">>
                       /\ q # 0
                       /\ (q = e + 1 \/ IsSpace(s[e + 1]))
                       /\ well_formed(s, q + 2, stack, root_done)
              ELSE FALSE
         ELSE IF i + 1 <= Len(s) /\ s[i + 1] = "/"
         THEN \* end tag '</name>'
              IF i + 2 <= Len(s) /\ IsNameStart(s[i + 2])
              THEN LET e == NameEnd(s, i + 2)
                       g == SkipSpaces(s, e + 1)
                   IN  /\ g <= Len(s) /\ s[g] = ">"
                       /\ stack # <<>>
                       /\ stack[Len(stack)] = SubSeq(s, i + 2, e)
                       /\ well_formed(s, g + 1, SubSeq(stack, 1, Len(stack) - 1),
                                      Len(stack) = 1)
              ELSE FALSE
         ELSE \* start tag '<name attributes>' or empty element '<name attributes/>'
              IF i + 1 <= Len(s) /\ IsNameStart(s[i + 1]) /\ ~root_done
              THEN LET e == NameEnd(s, i + 1)
                       g == AttrsEnd(s, e + 1, {})
                   IN  IF g = 0 \/ g > Len(s) THEN FALSE
                       ELSE IF s[g] = ">"
                       THEN well_formed(s, g + 1,
                                        Append(stack, SubSeq(s, i + 1, e)), FALSE)
                       ELSE IF s[g] = "/" /\ g + 1 <= Len(s) /\ s[g + 1] = ">"
                       THEN stack # <<>> /\ well_formed(s, g + 2, stack, FALSE)
                       ELSE FALSE
              ELSE FALSE
    ELSE IF stack = <<>>
    THEN \* outside the root element only white space may stand
         IsSpace(s[i]) /\ well_formed(s, i + 1, stack, root_done)
    ELSE IF s[i] = "&"
    THEN \* a reference to a predefined entity
         LET semi == IndexFrom(s, ";", i + 1)
         IN  /\ semi # 0
             /\ SubSeq(s, i + 1, semi - 1) \in EntityNames
             /\ well_formed(s, semi + 1, stack, root_done)
    ELSE IF s[i] = ">" /\ i > 2 /\ s[i - 1] = "]" /\ s[i - 2] = "]"
    THEN FALSE
    ELSE well_formed(s, i + 1, stack, root_done)

P_OPEN == <<"<", "p", ">">>
P_CLOSE == <<"<", "/", "p", ">">>

\* is_valid_xml("<p>" + line_str + "</p>")
is_valid_fragment(frag) == well_formed(P_OPEN \o frag \o P_CLOSE, 1, <<>>, FALSE)

(***************************************************************************)
(* convert_line                                                            *)
(***************************************************************************)
\* the fallback that returns the candidate although it failed validation
fallback_keep_candidate(original, candidate) == Strip(candidate, Whitespace)

\* the fallback that forgets to escape
fallback_no_escape(original, candidate) ==
    Strip(ACIP_transform(original, FALSE), Whitespace)

\* lines 217-219: the plain-text fallback
fallback(original, candidate) ==
    escape(Strip(ACIP_transform(original, FALSE), Whitespace))

\* the locals of convert_line at its return, and the value returned (ret)
convert_line(arg, mode) ==
    LET original_line_str == strip_line(arg)
        balanced == balance_parentheses(original_line_str, "[", "]")
        candidate == variant_rules(common_rules(balanced), mode)
        parts == tag_split(candidate, <<>>)
        result == component_results(candidate)
        components == Concat(result)
        valid == is_valid_fragment(components)
    IN  [original_line_str |-> original_line_str,
         candidate |-> candidate,
         parts |-> parts,
         result |-> result,
         components |-> components,
         valid |-> valid,
         ret |-> IF valid
                 THEN Strip(components, Whitespace)
                 ELSE fallback(original_line_str, components)]

(***************************************************************************)
(* sanitize_str                                                            *)
(***************************************************************************)
\* characters of the model that lie outside [\x09\x0A\x0D\x20-\x7E]: a form
\* feed and a non-ASCII letter
NonXmlAscii == {"\f", "U+00E9"}

RECURSIVE RemoveChars(_, _)
\* re.sub(r'[^\x09\x0A\x0D\x20-\x7E]', '', s)
RemoveChars(s, bad) ==
    IF s = <<>> THEN <<>>
    ELSE (IF Head(s) \in bad THEN <<>> ELSE <<Head(s)>>) \o RemoveChars(Tail(s), bad)

RECURSIVE DropSpacesAfterNewline(_)
\* re.sub(r'\n +', '\n', s)
DropSpacesAfterNewline(s) ==
    IF s = <<>> THEN <<>>
    ELSE IF Head(s) = "\n"
    THEN <<"\n">> \o DropSpacesAfterNewline(LStrip(Tail(s), {" "}))
    ELSE <<Head(s)>> \o DropSpacesAfterNewline(Tail(s))

RECURSIVE CollapseSpaces(_)
\* re.sub(r'  +', ' ', s)
CollapseSpaces(s) ==
    IF s = <<>> THEN <<>>
    ELSE IF Head(s) = " "
    THEN <<" ">> \o CollapseSpaces(LStrip(Tail(s), {" "}))
    ELSE <<Head(s)>> \o CollapseSpaces(Tail(s))

\* a cleaning that removes the characters outside the range last
sanitize_str_filter_last(s) ==
    LET s2 == ReplaceAll(ReplaceAll(s, <<"\r", "\n">>, <<"\n">>), <<"\r">>, <<"\n">>)
        s3 == DropSpacesAfterNewline(s2)
    IN  RemoveChars(CollapseSpaces(s3), NonXmlAscii)

sanitize_str(s) ==
    LET s1 == RemoveChars(s, NonXmlAscii)
        s2 == ReplaceAll(ReplaceAll(s1, <<"\r", "\n">>, <<"\n">>), <<"\r">>, <<"\n">>)
        s3 == DropSpacesAfterNewline(s2)
    IN  CollapseSpaces(s3)

(***************************************************************************)
(* convert_file, convert_file_not_transcript and the lists that select     *)
(* them.  A file stem is one token that holds no space, dot or markup      *)
(* character.                                                              *)
(***************************************************************************)
PROPER_EMENDATIONS ==
    {"S00202E", "S00057M", "S00034N", "S00021N", "S00020N", "S00019N", "S00017N",
     "S00016N", "S00013N", "SP05939N", "ST00024N", "SL05414N"}

IN_ENGLISH ==
    {"S00200A", "S00199A", "R0050A", "S00069F", "S00034E", "S00041N", "S00038F",
     "S12361E", "S00071A", "S00205A", "S00036F", "S00039F"}

NOT_TRANSCRIPTS ==
    {"S00200A", "S00199A", "R0050A", "S00069F", "S00034E", "S00041N", "S00038F",
     "S00071A", "S00205A", "S12361E", "S00034F", "S00036F", "S00039F"}

\* the catalog titles the model runs with (TITLES, read from the catalog at
\* import and put into the header unescaped)
TITLES ==
    [b \in {"S00200A", "S05302E"} |->
        IF b = "S05302E" THEN <<"T", "&", "C">> ELSE <<"T">>]

\* pages = parse_document(content)
parse_document(doc) == first_page_heuristic(CollectPages(doc))

\* one entry of tei_content after the header: a page break (kind "pb", with
\* its n attribute and its rendition), a converted paragraph (kind "p") or
\* the literal text of a non-transcript (kind "text")
PbLine(number, blank) ==
    [kind |-> "pb",
     n |-> IF number = None \/ number = <<>> THEN <<>> ELSE number,
     blank |-> blank,
     text |-> <<>>]

TextLine(kind, t) == [kind |-> kind, n |-> <<>>, blank |-> FALSE, text |-> t]

\* "MISSING PAGE" in p or "BLANK PAGE" in p or "[BP]" in p
blank_pattern(p) ==
    \/ Contains(p, <<"M", "I", "S", "S", "I", "N", "G", " ", "P", "A", "G", "E">>)
    \/ Contains(p, <<"B", "L", "A", "N", "K", " ", "P", "A", "G", "E">>)
    \/ Contains(p, <<"[", "B", "P", "]">>)

\* a blank test that looks at the first paragraph of any non-empty page
is_blank_first_paragraph(page) ==
    Len(page.content) >= 1 /\ blank_pattern(page.content[1])

\* line 395
is_blank(page) ==
    Len(page.content) = 1 /\ blank_pattern(page.content[1])

\* lines 406-407: a result of convert_line is appended if it is not empty
append_converted(converted_p) ==
    IF converted_p # <<>> THEN <<TextLine("p", converted_p)>> ELSE <<>>

RECURSIVE converted_paragraphs(_, _)
\* lines 404-407: the non-empty results of convert_line, in order
converted_paragraphs(ps, mode) ==
    IF ps = <<>> THEN <<>>
    ELSE append_converted(convert_line(Head(ps), mode).ret)
             \o converted_paragraphs(Tail(ps), mode)

\* lines 395-407: what one page appends to tei_content
page_lines(page, mode) ==
    IF is_blank(page)
    THEN <<PbLine(page.number, TRUE)>>
    ELSE <<PbLine(page.number, FALSE)>> \o converted_paragraphs(page.content, mode)

RECURSIVE body_lines_last_page_first(_, _)
\* an assembly that puts every page before the pages that precede it
body_lines_last_page_first(ps, mode) ==
    IF ps = <<>> THEN <<>>
    ELSE body_lines_last_page_first(Tail(ps), mode) \o page_lines(Head(ps), mode)

RECURSIVE body_lines(_, _)
\* lines 394-407
body_lines(ps, mode) ==
    IF ps = <<>> THEN <<>>
    ELSE page_lines(Head(ps), mode) \o body_lines(Tail(ps), mode)

RECURSIVE convert_line_calls(_)
\* the paragraphs convert_line is called with in the loop of lines 394-407
convert_line_calls(ps) ==
    IF ps = <<>> THEN <<>>
    ELSE (IF is_blank(Head(ps)) THEN <<>> ELSE Head(ps).content)
             \o convert_line_calls(Tail(ps))

\* a body text that is escaped but not sanitized
not_transcript_lines_unsanitized(raw) == <<TextLine("text", escape(raw))>>

\* lines 441-442 and 481
not_transcript_lines(raw) == <<TextLine("text", escape(sanitize_str(raw)))>>

\* the markup of one entry of tei_content
line_markup(l) ==
    IF l.kind = "pb"
    THEN <<"<", "pb">> \o (IF l.n # <<>> THEN <<" ", AttrN>> ELSE <<>>)
             \o (IF l.blank THEN <<" ", AttrRendBlank>> ELSE <<>>) \o <<"/", ">">>
    ELSE l.text

RECURSIVE join_lines(_)
\* '\n'.join(...) of the entries that follow the header
join_lines(ls) ==
    IF ls = <<>> THEN <<>>
    ELSE <<"\n">> \o line_markup(Head(ls)) \o join_lines(Tail(ls))

\* xml_content without its XML declaration.  Of the header the title
\* element is kept, the only one that holds text not made by this program;
\* the other header elements hold fixed text and identifiers made from the
\* file stem, which holds no markup character.
xml_content(title, lang, ls) ==
    <<"<", "TEI", " ", AttrXmlns, ">", "<", "teiHeader", ">", "<", "title", ">">>
        \o title
        \o <<"<", "/", "title", ">", "<", "/", "teiHeader", ">",
             "<", "text", ">",
             "<", "body", " ", IF lang = "en" THEN AttrLangEn ELSE AttrLangBo, ">",
             "<", "p", " ", AttrSpace, ">">>
        \o join_lines(ls)
        \o <<"\n", "<", "/", "p", ">", "\n", "<", "/", "body", ">", "\n",
             "<", "/", "text", ">", "\n", "<", "/", "TEI", ">">>

\* validate_and_normalize_xml(xml_content)[0]
validate_and_normalize_xml(xml) == well_formed(xml, 1, <<>>, FALSE)

\* the document of a file: what is written when it is valid
Document(base, title, lang, mode, ls, calls_made) ==
    [base |-> base, title |-> title, lang |-> lang, variant_mode |-> mode,
     body |-> ls, convert_line_calls |-> calls_made,
     valid |-> validate_and_normalize_xml(xml_content(title, lang, ls))]

\* lines 342-421
convert_file(base, raw, title) ==
    LET mode == IF base \in PROPER_EMENDATIONS THEN 1 ELSE 2
        lang == IF base \in IN_ENGLISH THEN "en" ELSE "bo"
        ps == parse_document(sanitize_str(raw))
    IN  Document(base, title, lang, mode, body_lines(ps, mode), convert_line_calls(ps))

\* lines 429-495, lang being the default of line 429
convert_file_not_transcript(base, raw, title) ==
    Document(base, title, "en", 0, not_transcript_lines(raw), <<>>)

(***************************************************************************)
(* Actions                                                                 *)
(***************************************************************************)
BalanceIdle ==
    /\ text = <<>> /\ text0 = <<>> /\ c1 = "(" /\ c2 = ")" /\ calls = 0

ParseIdle ==
    /\ content = <<>> /\ pages = <<>> /\ PAGE_COUNT = 0

NoLine == [ret |-> <<>>]

LineIdle ==
    /\ line_str = <<>> /\ variant_mode = 0 /\ line = NoLine

BatchIdle ==
    /\ txt_files = <<>> /\ file_i = 1
    /\ sources = <<>> /\ written = <<>> /\ errors = <<>>

TreeIdle ==
    /\ rows = <<>> /\ import_calls = <<>>

SanitizeIdle ==
    /\ dirty = <<>> /\ sanitized = <<>>

\* text = balance_parentheses(text, c1, c2)
Balance ==
    /\ pc = "balance"
    /\ calls < MaxCalls
    /\ text' = balance_parentheses(text, c1, c2)
    /\ calls' = calls + 1
    /\ UNCHANGED <<pc, c1, c2, text0, content, pages, PAGE_COUNT,
                   line_str, variant_mode, line, batchVars, treeVars, sanitizeVars>>

\* pages = parse_document(content)
ParseDocument ==
    /\ pc = "parse"
    /\ pages' = first_page_heuristic(CollectPages(content))
    /\ PAGE_COUNT' = PAGE_COUNT + LoopResult(content).count
    /\ pc' = "parsed"
    /\ UNCHANGED <<text, c1, c2, text0, calls, content, line_str, variant_mode, line,
                   batchVars, treeVars, sanitizeVars>>

InitBalance ==
    /\ pc = "balance"
    /\ text \in BalanceTexts
    /\ text0 = text
    /\ \E pair \in {<<"(", ")">>, <<"[", "]">>} : c1 = pair[1] /\ c2 = pair[2]
    /\ calls = 0
    /\ ParseIdle
    /\ LineIdle
    /\ BatchIdle
    /\ TreeIdle
    /\ SanitizeIdle

InitParse ==
    /\ pc = "parse"
    /\ content \in Documents
    /\ pages = <<>>
    /\ PAGE_COUNT = 0
    /\ BalanceIdle
    /\ LineIdle
    /\ BatchIdle
    /\ TreeIdle
    /\ SanitizeIdle

\* line = convert_line(line_str, variant_mode)
ConvertLine ==
    /\ pc = "line"
    /\ line' = convert_line(line_str, variant_mode)
    /\ pc' = "converted"
    /\ UNCHANGED <<text, c1, c2, text0, calls, content, pages, PAGE_COUNT,
                   line_str, variant_mode, batchVars, treeVars, sanitizeVars>>

\* the pieces the model concatenates paragraphs from
LinePieces ==
    { <<"a">>, <<" ">>, <<",">>, <<"&">>, <<"<">>, <<">">>, <<"[">>, <<"]">>,
      <<"(">>, <<"(", "a", ")">>, <<"[", "#">>, <<"?">>,
      <<"<", "a", ">">>, <<"<", "/", "a", ">">>, <<"<", "?", "a", " ">> }

Lines == {Concat(ps) : ps \in SeqsUpTo(LinePieces, MaxLinePieces)}

VariantModes == {0, 1, 2}

InitLine ==
    /\ pc = "line"
    /\ line_str \in Lines
    /\ variant_mode \in VariantModes
    /\ line = NoLine
    /\ BalanceIdle
    /\ ParseIdle
    /\ BatchIdle
    /\ TreeIdle
    /\ SanitizeIdle

\* the pieces the model concatenates annotated paragraphs from
AnnotPieces ==
    { <<"a">>, <<" ">>, <<",">>, <<"[">>, <<"]">>,
      <<"[", "a", "?", "]">>, <<"[", "*", "a", "]">>,
      <<"[", "?", "]">>, <<"[", " ", "?", " ", "]">>,
      <<"[", "p", "a", "g", "e", "&", "a", "]">>,
      <<"[", " ", "#", "T", "e", "x", "t", " ", "]">>,
      <<"[", "m", "i", "s", "s", "i", "n", "g", " ", "a", "]">>,
      <<"[", "#", "a", "]">> }

AnnotLines == {Concat(ps) : ps \in SeqsUpTo(AnnotPieces, MaxAnnotPieces)}

InitAnnot ==
    /\ pc = "line"
    /\ line_str \in AnnotLines
    /\ variant_mode \in VariantModes
    /\ line = NoLine
    /\ BalanceIdle
    /\ ParseIdle
    /\ BatchIdle
    /\ TreeIdle
    /\ SanitizeIdle

SpecLine == InitLine /\ [][ConvertLine]_vars

SpecAnnot == InitAnnot /\ [][ConvertLine]_vars

SpecBalance == InitBalance /\ [][Balance]_vars

SpecParse == InitParse /\ [][ParseDocument]_vars

(***************************************************************************)
(* convert_all: one action per way an iteration of its loop can go         *)
(***************************************************************************)
\* lines 674-678: the catalog title, or the stem when the catalog has none
title_of(base) == IF base \in DOMAIN TITLES THEN TITLES[base] ELSE <<base>>

\* the faults the file system can raise inside the try block: none, one on
\* reading the input (open, read, checksum), one on writing the output
Faults == {"none", "read", "write"}

\* lines 696-699: mkdir or shutil.copy raises; nothing catches it, and the
\* exception leaves convert_all
CopySourceFails ==
    /\ pc = "convert_all"
    /\ file_i <= Len(txt_files)
    /\ pc' = "raised"
    /\ UNCHANGED <<balanceVars, parseVars, PAGE_COUNT, lineVars, batchVars, treeVars, sanitizeVars>>

\* lines 701-708: the document is written when nothing was raised and it is
\* valid; otherwise the error is logged and the loop goes on
write_or_log(base, doc, fault) ==
    IF fault = "none" /\ doc.valid
    THEN written' = Append(written, doc) /\ UNCHANGED errors
    ELSE errors' = Append(errors, base) /\ UNCHANGED written

\* lines 671-708 for a file that is a transcript
ConvertTranscript ==
    /\ pc = "convert_all"
    /\ file_i <= Len(txt_files)
    /\ txt_files[file_i].base \notin NOT_TRANSCRIPTS
    /\ LET f == txt_files[file_i]
       IN  \E fault \in Faults :
              /\ sources' = Append(sources, f.base)
              /\ PAGE_COUNT' = IF fault = "read" THEN PAGE_COUNT
                               ELSE PAGE_COUNT + LoopResult(sanitize_str(f.content)).count
              /\ write_or_log(f.base, convert_file(f.base, f.content, title_of(f.base)),
                              fault)
    /\ file_i' = file_i + 1
    /\ UNCHANGED <<pc, balanceVars, parseVars, lineVars, txt_files, treeVars, sanitizeVars>>

\* lines 671-708 for a file of NOT_TRANSCRIPTS
ConvertNotTranscript ==
    /\ pc = "convert_all"
    /\ file_i <= Len(txt_files)
    /\ txt_files[file_i].base \in NOT_TRANSCRIPTS
    /\ LET f == txt_files[file_i]
       IN  \E fault \in Faults :
              /\ sources' = Append(sources, f.base)
              /\ write_or_log(f.base,
                              convert_file_not_transcript(f.base, f.content, title_of(f.base)),
                              fault)
    /\ file_i' = file_i + 1
    /\ UNCHANGED <<pc, balanceVars, parseVars, PAGE_COUNT, lineVars, txt_files, treeVars, sanitizeVars>>

\* the file stems of the model in sorted order: a non-transcript outside
\* IN_ENGLISH, a non-transcript of IN_ENGLISH, a transcript of
\* PROPER_EMENDATIONS, a transcript whose catalog title holds '&', and a
\* transcript of no list.  None of them belongs to GROUPS.
FileStems == <<"S00034F", "S00200A", "S00202E", "S05302E", "S05650E">>

StemIndex(b) == CHOOSE i \in 1..Len(FileStems) : FileStems[i] = b

\* the texts of the model's files, as read
FileContents ==
    { <<>>,
      <<"a">>,
      <<"@", "1", "a", " ", "[", "B", "P", "]">>,
      <<"@", "1", "a", " ", "[", "B", "P", "]", "\n", "\n", "a">>,
      <<"@", "1", " ", "M", "I", "S", "S", "I", "N", "G", " ", "P", "A", "G", "E">>,
      <<"@", "1", "a", " ", "a", "\n", "@", "1", "b", " ", "[", "B", "P", "]">>,
      <<"a", " ", "&", "\r", "\n", " ", " ", "@", "2", "a", " ", "<", "\f">>,
      <<"@", "1", " ", "B", "L", "A", "N", "K", " ", "P", "A", "G", "E", " ", "x">>,
      <<"@", "1", "a", " ", "[", "?", "]", "a">> }

Files == [base : {FileStems[i] : i \in 1..Len(FileStems)}, content : FileContents]

\* sorted(glob.glob("texts/*.txt")): distinct names in ascending order
FileLists ==
    { fs \in SeqsUpTo(Files, MaxFiles) :
        \A i \in 1..(Len(fs) - 1) : StemIndex(fs[i].base) < StemIndex(fs[i + 1].base) }

InitBatch ==
    /\ pc = "convert_all"
    /\ txt_files \in FileLists
    /\ file_i = 1
    /\ sources = <<>>
    /\ written = <<>>
    /\ errors = <<>>
    /\ BalanceIdle
    /\ ParseIdle
    /\ LineIdle
    /\ TreeIdle
    /\ SanitizeIdle

NextBatch == CopySourceFails \/ ConvertTranscript \/ ConvertNotTranscript

SpecBatch == InitBatch /\ [][NextBatch]_vars

(***************************************************************************)
(* import_cat.py: process_tree.  A row of the catalog is held as its depth *)
(* (the column of A..G that holds 'X'), its type (column I) and its topic  *)
(* id (column N), the last two as strings of tokens in which ',' is the    *)
(* separator.                                                              *)
(***************************************************************************)
RECURSIVE SplitComma(_, _)
\* str.split(","); acc is the field being read
SplitComma(s, acc) ==
    IF s = <<>> THEN <<acc>>
    ELSE IF Head(s) = "," THEN <<acc>> \o SplitComma(Tail(s), <<>>)
    ELSE SplitComma(Tail(s), Append(acc, Head(s)))

\* "word" in row[8], a substring test: of the type tokens of the model (T, X,
\* C, Auth and " C", a C written after a space) only " C" holds another one
type_mentions(row, word) ==
    \E i \in 1..Len(row.type) :
        row.type[i] = word \/ (row.type[i] = " C" /\ word = "C")

\* a topic id taken from every row, whatever its type
topic_id_of_any_type(row) == row.topic

\* lines 314-317: the topic id of a row, None (here the empty string, which
\* line 355 treats alike) for an Auth, X or C row
topic_id_of(row) ==
    IF ~type_mentions(row, "Auth") /\ ~type_mentions(row, "X") /\ ~type_mentions(row, "C")
    THEN row.topic
    ELSE <<>>

\* line 323
is_collection(row) ==
    row.type # <<>> /\ \E i \in 1..Len(SplitComma(row.type, <<>>)) :
                          SplitComma(row.type, <<>>)[i] = <<"C">>

RECURSIVE next_same_level_idx(_, _, _, _)
\* lines 326-334: the first row from j on, before end_idx, at the level of
\* the row or above it; end_idx when there is none
next_same_level_idx(rs, j, end_idx, row_level) ==
    IF j >= end_idx THEN end_idx
    ELSE IF rs[j].level <= row_level THEN j
    ELSE next_same_level_idx(rs, j + 1, end_idx, row_level)

RECURSIVE process_tree(_, _, _, _, _)
\* the calls of import_row (and, for a collection, of import_outline) that
\* process_tree(rows, start_idx, end_idx, parent_topic_ids, current_level)
\* makes, in order; indices count from 1, end_idx is exclusive
process_tree(rs, i, end_idx, parent_topic_ids, current_level) ==
    IF i >= end_idx THEN <<>>
    ELSE IF rs[i].level # current_level
    THEN process_tree(rs, i + 1, end_idx, parent_topic_ids, current_level)
    ELSE LET row == rs[i]
             topic_id == topic_id_of(row)
             next == next_same_level_idx(rs, i + 1, end_idx, row.level)
             has_children == \E j \in (i + 1)..(next - 1) : rs[j].level = row.level + 1
             is_leaf == is_collection(row) \/ ~has_children
             current_topic_ids ==
                 IF topic_id # <<>>
                 THEN parent_topic_ids \o SplitComma(topic_id, <<>>)
                 ELSE parent_topic_ids
         IN  (IF is_leaf
              THEN <<[row |-> i, topics |-> parent_topic_ids,
                      outline |-> is_collection(row)]>>
              ELSE process_tree(rs, i + 1, next, current_topic_ids, current_level + 1))
                 \o process_tree(rs, next, end_idx, parent_topic_ids, current_level)

\* line 299: process_tree(rows, 0, len(rows), [], 0)
ProcessTree ==
    /\ pc = "catalog"
    /\ import_calls' = process_tree(rows, 1, Len(rows) + 1, <<>>, 0)
    /\ pc' = "imported"
    /\ UNCHANGED <<balanceVars, parseVars, PAGE_COUNT, lineVars, batchVars, rows,
                   sanitizeVars>>

\* the depths, types and topic ids of the model's rows
RowLevels == 0..2

RowTypes == { <<"T">>, <<"C">>, <<"T", ",", "X">>, <<"Auth">>, <<"T", ",", " C">> }

RowTopics == { <<>>, <<"n">>, <<"m", ",", "n">> }

Rows == [level : RowLevels, type : RowTypes, topic : RowTopics]

\* the depths form a tree (docstring, lines 15-23): the first row is at depth
\* 0 and a row is at most one level deeper than the row before it
DepthsAfter(rs) ==
    IF rs = <<>> THEN {0} ELSE {l \in RowLevels : l <= rs[Len(rs)].level + 1}

RECURSIVE TreesOfLen(_)
\* the catalogs of n rows whose depths form a tree
TreesOfLen(n) ==
    IF n = 0 THEN {<<>>}
    ELSE {Append(x[1], x[2]) :
             x \in {y \in TreesOfLen(n - 1) \X Rows : y[2].level \in DepthsAfter(y[1])}}

InitTree ==
    /\ pc = "catalog"
    /\ \E n \in 0..MaxRows : rows \in TreesOfLen(n)
    /\ import_calls = <<>>
    /\ BalanceIdle
    /\ ParseIdle
    /\ LineIdle
    /\ BatchIdle
    /\ SanitizeIdle

SpecTree == InitTree /\ [][ProcessTree]_vars

(***************************************************************************)
(* sanitize_str on its own                                                 *)
(***************************************************************************)
\* sanitized = sanitize_str(dirty)
SanitizeStr ==
    /\ pc = "sanitize"
    /\ sanitized' = sanitize_str(dirty)
    /\ pc' = "sanitized"
    /\ UNCHANGED <<balanceVars, parseVars, PAGE_COUNT, lineVars, batchVars, treeVars,
                   dirty>>

\* the characters of the model's strings: a letter, the space, the three
\* line-break and tab characters that the first filter keeps, and the
\* characters that it removes
DirtyAlphabet == {"a", " ", "\n", "\r", "\t"} \cup NonXmlAscii

InitSanitize ==
    /\ pc = "sanitize"
    /\ dirty \in SeqsUpTo(DirtyAlphabet, MaxDirtyLen)
    /\ sanitized = <<>>
    /\ BalanceIdle
    /\ ParseIdle
    /\ LineIdle
    /\ BatchIdle
    /\ TreeIdle

SpecSanitize == InitSanitize /\ [][SanitizeStr]_vars

(***************************************************************************)
(* Properties of balance_parentheses (checked under SpecBalance)           *)
(***************************************************************************)

\* C2: bracket balancing is idempotent: once a string has been balanced,
\* balancing it again with the same delimiters returns it unchanged.
C2_BalanceIdempotent == [][calls >= 1 => text' = text]_vars

\* C3: the returned string holds c1 and c2 equally often: missing closers
\* (c2) are appended, missing openers (c1) are prepended, and a balanced
\* text is returned unchanged.
C3_BalanceEqualCounts ==
    calls = 1 =>
        /\ Count(text, c1) = Count(text, c2)
        /\ text = balance_symmetric(text0, c1, c2)

(***************************************************************************)
(* Properties of parse_document (checked under SpecParse)                  *)
(***************************************************************************)
Parsed == pc = "parsed"

\* positions where a page marker starts: an '@' followed by a non-space
\* character that does not lie inside a marker begun earlier in the same word
MarkerStarts(s) ==
    {p \in 1..(Len(s) - 1) :
        /\ s[p] = "@"
        /\ ~IsSpace(s[p + 1])
        /\ \A q \in 1..(p - 1) :
              (\A r \in q..p : ~IsSpace(s[r])) => s[q] # "@"}

\* the k-th smallest element of a finite set of numbers
KthOf(S, k) == CHOOSE p \in S : Cardinality({q \in S : q < p}) = k - 1

\* last position of the marker that starts at p
MarkerEnd(s, p) ==
    CHOOSE e \in p..Len(s) :
        /\ \A r \in p..e : ~IsSpace(s[r])
        /\ (e = Len(s) \/ IsSpace(s[e + 1]))

\* the text after the k-th marker up to the next marker (k = 0: before the first)
Segment(s, k) ==
    LET ms == MarkerStarts(s)
        n == Cardinality(ms)
        from == IF k = 0 THEN 1 ELSE MarkerEnd(s, KthOf(ms, k)) + 1
        to == IF k = n THEN Len(s) ELSE KthOf(ms, k + 1) - 1
    IN  SubSeq(s, from, to)

\* the token of the k-th marker: the marker without its leading '@'s
MarkerToken(s, k) ==
    LET p == KthOf(MarkerStarts(s), k)
        t == LStrip(SubSeq(s, p, MarkerEnd(s, p)), {"@"})
    IN  IF t = <<>> THEN <<"@">> ELSE t

HasLeadingText(s) == Strip(Segment(s, 0), Whitespace) # <<>>

\* pages are the markers of s in order, after one page for leading text; each
\* holds the paragraphs of its segment; labels from the third page on are the
\* cleaned marker tokens
PagesFollow(s) ==
    LET n == Cardinality(MarkerStarts(s))
        lead == IF HasLeadingText(s) THEN 1 ELSE 0
    IN  /\ Len(pages) = n + lead
        /\ \A i \in 1..Len(pages) :
              /\ pages[i].content = paras(Segment(s, i - lead))
              /\ i >= 3 => pages[i].number = clean_page_number(MarkerToken(s, i - lead))

\* C6: one page per page marker of the text in source order, preceded by one
\* page when text precedes the first marker; each page holds the non-empty
\* blank-line-separated chunks of the text between its marker and the next.
C6_PagesFollowSource == Parsed => PagesFollow(content)

\* C6 (amended): the same, of the text as it stands after the document-wide
\* round-parenthesis repair.
C6_PagesFollowBalanced == Parsed => PagesFollow(balance_parentheses(content, "(", ")"))

C6_Witness ==
    /\ Parsed
    /\ Len(pages) = 2
    /\ Len(pages[1].content) = 2
    /\ pages[1].number = None
    /\ Count(content, "(") # Count(content, ")")

\* C7: a text without page marker, empty and blank texts included, gives
\* exactly one page, and its number is None.
C7_NoMarkerOnePage ==
    (Parsed /\ MarkerStarts(content) = {}) =>
        (Len(pages) = 1 /\ pages[1].number = None)

\* C7 (amended): a text that holds no page marker once the document-wide
\* round-parenthesis repair is done gives exactly one page, numbered None,
\* when it holds a non-space character, and no page when it is empty or blank.
C7_NoMarkerOnePageIfText ==
    (Parsed /\ MarkerStarts(balance_parentheses(content, "(", ")")) = {}) =>
        IF Strip(content, Whitespace) # <<>>
        THEN Len(pages) = 1 /\ pages[1].number = None
        ELSE pages = <<>>

C7_Witness ==
    /\ Parsed
    /\ MarkerStarts(content) = {}
    /\ Len(content) = 3
    /\ Len(pages) = 1
    /\ Len(pages[1].content) = 2

\* C8: a page is numbered None only if it is the first page and the text
\* handed to parse_document has non-space content before its first marker; a
\* text that begins with a marker never gives a None-numbered page.
C8_NoneOnlyLeadingText ==
    Parsed =>
        \A i \in 1..Len(pages) :
            pages[i].number = None => (i = 1 /\ HasLeadingText(content))

\* C8 (amended): a page is numbered None only if it is the first page and the
\* text, as it stands after the document-wide round-parenthesis repair, has
\* non-space content before its first marker; a text that begins with a
\* marker and holds no more ')' than '(' never gives a None-numbered page.
C8_NoneOnlyLeadingBalancedText ==
    Parsed =>
        /\ \A i \in 1..Len(pages) :
              pages[i].number = None =>
                  (i = 1 /\ HasLeadingText(balance_parentheses(content, "(", ")")))
        /\ (1 \in MarkerStarts(content) /\ Count(content, ")") <= Count(content, "("))
              => \A i \in 1..Len(pages) : pages[i].number # None

C8_Witness ==
    /\ Parsed
    /\ 1 \in MarkerStarts(content)
    /\ Len(pages) = 2
    /\ pages[1].number = None

\* a PageLabel: digits followed by at most one 'a' or 'b'
IsPageLabel(n) ==
    \E k \in 0..Len(n) :
        /\ \A j \in 1..k : n[j] \in Digits
        /\ \/ Len(n) = k
           \/ Len(n) = k + 1 /\ n[k + 1] \in {"a", "b"}

\* C9: every page number other than None matches [0-9]*[ab]?.
C9_NumbersArePageLabels ==
    Parsed =>
        \A i \in 1..Len(pages) :
            pages[i].number # None => IsPageLabel(pages[i].number)

\* C9 (amended): every page number other than None consists of digits and
\* the letters 'a' and 'b' only ([0-9ab]*).
C9_NumbersAreDigitsAB ==
    Parsed =>
        \A i \in 1..Len(pages) :
            pages[i].number # None =>
                \A j \in 1..Len(pages[i].number) :
                    pages[i].number[j] \in Digits \cup {"a", "b"}

C9_Witness ==
    /\ Parsed
    /\ Len(pages) = 1
    /\ pages[1].number = <<"1", "a", "b">>

\* the condition of the first-page heuristic on the pages collected
HeuristicApplies(ps) ==
    /\ Len(ps) >= 3
    /\ ps[1].number = None
    /\ ps[2].number \in {<<"1", "a">>, <<"1">>}
    /\ ps[3].number = <<"2", "a">>

\* C10: with at least 3 pages, first number None, second label '1a' or '1'
\* and third label '2a', the first two pages are relabelled '1a' and '1b';
\* otherwise no label changes; paragraphs and the labels after the second
\* page never change.
C10_FirstPageHeuristic ==
    Parsed =>
        LET before == CollectPages(content)
        IN  /\ Len(pages) = Len(before)
            /\ \A i \in 1..Len(pages) : pages[i].content = before[i].content
            /\ \A i \in 3..Len(pages) : pages[i].number = before[i].number
            /\ IF HeuristicApplies(before)
               THEN pages[1].number = <<"1", "a">> /\ pages[2].number = <<"1", "b">>
               ELSE \A i \in 1..Len(pages) : pages[i].number = before[i].number

C10_Witness ==
    /\ Parsed
    /\ HeuristicApplies(CollectPages(content))
    /\ pages[1].number = <<"1", "a">>
    /\ pages[2].number = <<"1", "b">>
    /\ pages[3].number = <<"2", "a">>

(***************************************************************************)
(* Properties of convert_line and convert_text_components (SpecLine)       *)
(***************************************************************************)
Converted == pc = "converted"

\* C1: for every paragraph and variant mode convert_line returns a string
\* that is well-formed XML once wrapped as <p>...</p>: the candidate fragment,
\* trimmed, when it passed validation, and the escaped plain-text fallback
\* otherwise.
C1_ResultWellFormed ==
    Converted =>
        /\ is_valid_fragment(line.ret)
        /\ IF is_valid_fragment(line.components)
           THEN line.ret = Strip(line.components, Whitespace)
           ELSE line.ret =
                    escape(Strip(ACIP_transform(strip_line(line_str), FALSE), Whitespace))

C1_Witness ==
    /\ Converted
    /\ ~line.valid
    /\ Contains(line.original_line_str, <<"<">>)
    /\ Contains(line.original_line_str, <<"&">>)
    /\ Contains(line.ret, <<"&", "l", "t", ";">>)

\* a text token that directly follows a tag token holding xml:lang="en"
FollowsEnglishTag(parts, i) ==
    /\ i >= 2
    /\ ~is_tag(parts[i])
    /\ is_tag(parts[i - 1])
    /\ should_skip_tag(parts[i - 1])

\* C4: every text token that directly follows a tag token holding
\* xml:lang="en" appears in the output in its input form (XML-escaped, as
\* every text token is), whatever tokens preceded it.
C4_EnglishTextUnchanged ==
    Converted =>
        \A i \in 1..Len(line.parts) :
            FollowsEnglishTag(line.parts, i) => line.result[i] = escape(line.parts[i])

\* a text token that lies between an opening tag holding xml:lang="en" and
\* the next closing tag of a note
InsideEnglishElement(parts, i) ==
    /\ ~is_tag(parts[i])
    /\ \E k \in 1..(i - 1) :
          /\ is_tag(parts[k])
          /\ should_skip_tag(parts[k])
          /\ \A j \in (k + 1)..(i - 1) : parts[j] # NOTE_CLOSE

\* C5: no text token enclosed by an English-marked element is
\* transliterated (the space that follows a shad apart, the token is passed
\* through), text after a nested child element included.
C5_EnglishNeverTransliterated ==
    (Converted /\ line.valid) =>
        \A i \in 1..Len(line.parts) :
            InsideEnglishElement(line.parts, i) =>
                line.result[i] \in {escape(line.parts[i]),
                                    escape(<<" ">> \o line.parts[i])}

(***************************************************************************)
(* Properties of convert_line on empty paragraphs and under variant mode 0 *)
(* (checked under SpecLine)                                                *)
(***************************************************************************)
\* C14: convert_line applied to a paragraph that is empty after trimming
\* returns the empty fragment (which the assembler's non-empty test omits).
C14_EmptyParagraphEmptyFragment ==
    (Converted /\ Strip(line_str, Whitespace) = <<>>) => line.ret = <<>>

\* C18: under variant mode 0 no variant processing is done: the fragment
\* handed to the splitter is what the common rules produced, the remaining
\* '[...]' spans still in it.
C18_ModeZeroNoVariantProcessing ==
    (Converted /\ variant_mode = 0) =>
        line.candidate =
            common_rules(balance_parentheses(line.original_line_str, "[", "]"))

(***************************************************************************)
(* Properties of the annotation policies and of the shad flag (checked     *)
(* under SpecAnnot)                                                        *)
(***************************************************************************)
\* a non-empty run of letters
IsPlainWord(w) == w # <<>> /\ \A i \in 1..Len(w) : IsAlpha(w[i])

\* a correction as written between the brackets: a word, '*' allowed in
\* front of it and '?' behind it
IsCorrection(c) == IsPlainWord(RStrip(LStrip(c, {"*"}), {"?"}))

\* running text as it stands in the output: transliterated, then escaped
Emitted(t) == escape(ACIP_transform(t, FALSE))

\* the choice element of the word and the correction c
ChoiceElement(word, c) ==
    CHOICE_OPEN \o Emitted(word) \o ORIG_CLOSE
        \o (IF c[Len(c)] = "?" THEN CORR_OPEN_LOW ELSE CORR_OPEN)
        \o Emitted(RStrip(LStrip(c, {"*"}), {"?"}))
        \o CHOICE_CLOSE

\* C11: under variant mode 1 a word followed by a bracketed correction, plain
\* words at most standing before it, yields a choice element whose orig child
\* holds exactly the word and whose corr child holds the correction without
\* its leading '*' and trailing '?', cert="low" exactly when it ended in '?';
\* also when the word is the first token of the paragraph.
C11_ChoiceOrigIsTheWord ==
    (Converted /\ variant_mode = 1) =>
        LET o == line.original_line_str
        IN  \A k \in 1..Len(o) : \A j \in k..Len(o) :
                LET word == SubSeq(o, k, j)
                    b == SkipSpaces(o, j + 1)
                    c == SubSeq(o, b + 1, Len(o) - 1)
                IN  ( /\ IsPlainWord(word)
                      /\ (k = 1 \/ IsSpace(o[k - 1]))
                      /\ \A i \in 1..(k - 1) : IsAlpha(o[i]) \/ IsSpace(o[i])
                      /\ b < Len(o)
                      /\ o[b] = "["
                      /\ o[Len(o)] = "]"
                      /\ IsCorrection(c) )
                    => Contains(line.ret, ChoiceElement(word, c))

\* the content of a '[...]' span that no earlier rule has consumed
IsRemainingContent(c) ==
    /\ c # <<>>
    /\ \A i \in 1..Len(c) :
          IsAlpha(c[i]) \/ c[i] \in {" ", "?", "*", "&", "#", "!"}
    /\ c[1] # "#"
    /\ c \notin {<<"L", "L">>, <<"D", "R">>, <<"D", "D">>}

RECURSIVE IsSpanLine(_)
\* the paragraph is a sequence of '[...]' spans and nothing else
IsSpanLine(s) ==
    IF s = <<>> THEN TRUE
    ELSE LET j == IndexFrom(s, "]", 2)
         IN  /\ Head(s) = "["
             /\ j > 2
             /\ IsRemainingContent(SubSeq(s, 2, j - 1))
             /\ IsSpanLine(SubSeq(s, j + 1, Len(s)))

\* the element the UnclearSupplied policy gives for a span of content c
UnclearSuppliedElement(c) ==
    LET t == Strip(c, Whitespace)
        tlower == MapLower(t)
    IN  IF t = <<"?">> THEN GAP
        ELSE IF \/ Contains(tlower, <<"p", "a", "g", "e">>)
                \/ Contains(tlower, <<"t", "e", "x", "t">>)
                \/ Contains(tlower, <<"m", "i", "s", "s", "i", "n", "g", " ">>)
        THEN NOTE_OPEN \o escape(Strip(t, NoteStrip)) \o NOTE_CLOSE
        ELSE UNCLEAR_OPEN \o Emitted(RStrip(t, {"?"})) \o UNCLEAR_CLOSE

RECURSIVE SpanElements(_)
\* the elements of the spans of a paragraph that IsSpanLine holds of
SpanElements(s) ==
    IF s = <<>> THEN <<>>
    ELSE LET j == IndexFrom(s, "]", 2)
         IN  UnclearSuppliedElement(SubSeq(s, 2, j - 1))
                 \o SpanElements(SubSeq(s, j + 1, Len(s)))

\* C12: under variant mode 2 every remaining '[...]' span is rewritten on
\* its own: '?' gives a gap; content with 'page', 'text' or 'missing ' in its
\* lowercase form gives an English editorial note whose text is the content
\* stripped of ' #!*[]()&' at both ends; any other content gives an unclear
\* element, its trailing '?' stripped.
C12_UnclearSuppliedSpans ==
    (Converted /\ variant_mode = 2 /\ IsSpanLine(line.original_line_str)) =>
        line.ret = LB \o SpanElements(line.original_line_str)

\* C20: when a text token is processed, last_is_shad tells whether the most
\* recent non-skipped text token before it was non-empty and ended in a shad
\* character; skipped text tokens in between do not change it.
C20_LastIsShadOfLastNonSkipped ==
    Converted =>
        LET parts == line.parts
            trace == ComponentsTrace(ComponentsInit, parts)
            NonSkipped(i) ==
                {k \in 1..(i - 1) : ~is_tag(parts[k]) /\ ~trace[k].skip}
            Last(i) == CHOOSE k \in NonSkipped(i) : \A n \in NonSkipped(i) : n <= k
        IN  \A i \in 1..Len(parts) :
                ~is_tag(parts[i]) =>
                    ( trace[i].last_is_shad
                      <=> ( /\ NonSkipped(i) # {}
                            /\ parts[Last(i)] # <<>>
                            /\ parts[Last(i)][Len(parts[Last(i)])] \in ShadChars ) )

(***************************************************************************)
(* Properties of convert_all and of the documents it writes (checked       *)
(* under SpecBatch)                                                        *)
(***************************************************************************)
\* the input file of the stem b
FileOf(b) == txt_files[CHOOSE i \in 1..Len(txt_files) : txt_files[i].base = b]

\* the pages of the input file of the stem b
PagesOf(b) == parse_document(sanitize_str(FileOf(b).content))

\* the page holds exactly one paragraph, and it matches the blank pattern
SoleBlankParagraph(page) ==
    /\ Len(page.content) = 1
    /\ \/ Contains(page.content[1], <<"M", "I", "S", "S", "I", "N", "G", " ", "P", "A", "G", "E">>)
       \/ Contains(page.content[1], <<"B", "L", "A", "N", "K", " ", "P", "A", "G", "E">>)
       \/ Contains(page.content[1], <<"[", "B", "P", "]">>)

RECURSIVE ConvertedOf(_, _)
\* the non-empty conversions of the paragraphs ps, in order
ConvertedOf(ps, mode) ==
    IF ps = <<>> THEN <<>>
    ELSE LET r == convert_line(Head(ps), mode).ret
         IN  (IF r # <<>> THEN <<[kind |-> "p", n |-> <<>>, blank |-> FALSE, text |-> r]>>
              ELSE <<>>) \o ConvertedOf(Tail(ps), mode)

\* the page-break entry of a page
PageBreakOf(page, blank) ==
    [kind |-> "pb",
     n |-> IF page.number \in {None, <<>>} THEN <<>> ELSE page.number,
     blank |-> blank,
     text |-> <<>>]

RECURSIVE BlankOrConverted(_, _)
\* a blank page break for a page with a sole blank paragraph; for any other
\* page a plain page break, then its converted paragraphs
BlankOrConverted(ps, mode) ==
    IF ps = <<>> THEN <<>>
    ELSE (IF SoleBlankParagraph(Head(ps))
          THEN <<PageBreakOf(Head(ps), TRUE)>>
          ELSE <<PageBreakOf(Head(ps), FALSE)>> \o ConvertedOf(Head(ps).content, mode))
             \o BlankOrConverted(Tail(ps), mode)

\* C13: in a document convert_file writes, a page whose content is exactly
\* one paragraph matching the blank pattern is a single page break with
\* rend="blank" and no text, and convert_line is not called for it; every
\* other page is a plain page break followed by its converted paragraphs.
C13_BlankPages ==
    \A k \in 1..Len(written) :
        LET d == written[k]
        IN  d.base \notin NOT_TRANSCRIPTS =>
                /\ d.body = BlankOrConverted(PagesOf(d.base), d.variant_mode)
                /\ \A i \in 1..Len(PagesOf(d.base)) :
                      SoleBlankParagraph(PagesOf(d.base)[i]) =>
                          \A j \in 1..Len(d.convert_line_calls) :
                              d.convert_line_calls[j] # PagesOf(d.base)[i].content[1]

\* a written transcript with a blank page break and a page of several
\* paragraphs, the first of which matches the blank pattern
C13_Witness ==
    \E k \in 1..Len(written) : \E m \in 1..Len(written) :
        /\ written[k].base \notin NOT_TRANSCRIPTS
        /\ \E i \in 1..Len(written[k].body) :
              written[k].body[i].kind = "pb" /\ written[k].body[i].blank
        /\ written[m].base \notin NOT_TRANSCRIPTS
        /\ \E i \in 1..Len(PagesOf(written[m].base)) :
              LET page == PagesOf(written[m].base)[i]
              IN  /\ Len(page.content) > 1
                  /\ Contains(page.content[1], <<"[", "B", "P", "]">>)

\* C15 as stated: the body written for a non-transcript is the whole
\* sanitized file, transliterated and XML-escaped, as one literal text block.
C15_NotTranscriptTransliterated ==
    \A k \in 1..Len(written) :
        LET d == written[k]
        IN  d.base \in NOT_TRANSCRIPTS =>
                /\ Len(d.body) = 1
                /\ d.body[1].kind = "text"
                /\ d.body[1].text = Emitted(sanitize_str(FileOf(d.base).content))

\* C15 as amended: the body written for a non-transcript is the whole
\* sanitized file, XML-escaped and not transliterated, as one literal text
\* block that holds no page-break or annotation element.
C15_NotTranscriptEscapedLiteral ==
    \A k \in 1..Len(written) :
        LET d == written[k]
        IN  d.base \in NOT_TRANSCRIPTS =>
                /\ Len(d.body) = 1
                /\ d.body[1].kind = "text"
                /\ d.body[1].text = escape(sanitize_str(FileOf(d.base).content))
                /\ ~Contains(d.body[1].text, <<"<">>)

\* a written non-transcript whose file holds a page marker, '&', '<', a
\* carriage return and a character outside the allowed range
C15_Witness ==
    \E k \in 1..Len(written) :
        /\ written[k].base \in NOT_TRANSCRIPTS
        /\ Contains(FileOf(written[k].base).content, <<"@", "2", "a">>)
        /\ Contains(FileOf(written[k].base).content, <<"&", "\r">>)
        /\ Contains(FileOf(written[k].base).content, <<"<", "\f">>)
        /\ Contains(written[k].body[1].text, <<"&", "a", "m", "p", ";", "\n", "@", "2", "a">>)

\* C16: the body of every document written has xml:lang="en" exactly when
\* the file's identifier is in IN_ENGLISH, and "bo" otherwise.
C16_LangFollowsInEnglish ==
    \A k \in 1..Len(written) :
        /\ written[k].lang \in {"en", "bo"}
        /\ written[k].lang = "en" <=> written[k].base \in IN_ENGLISH

\* C17: no failure on one document ends the batch (the loop never stops
\* with files left), and no document that fails validation is written.
C17_BatchSurvivesFailures ==
    /\ pc = "raised" => file_i > Len(txt_files)
    /\ \A k \in 1..Len(written) : written[k].valid

(***************************************************************************)
(* Properties of process_tree (checked under SpecTree)                     *)
(***************************************************************************)
Imported == pc = "imported"

\* the word is one of the comma-separated values of the type of the row
TypeIncludes(row, word) == \E i \in 1..Len(row.type) : row.type[i] = word

\* the ancestor of row i at depth l: the nearest row before it at that depth
AncestorAt(rs, i, l) ==
    CHOOSE j \in 1..(i - 1) :
        rs[j].level = l /\ \A k \in (j + 1)..(i - 1) : rs[k].level > l

\* row i lies beneath a collection row
BeneathCollection(rs, i) ==
    \E l \in 0..(rs[i].level - 1) : TypeIncludes(rs[AncestorAt(rs, i, l)], "C")

\* row i is a collection or has no sub-level row beneath it
IsLeafRow(rs, i) ==
    \/ TypeIncludes(rs[i], "C")
    \/ i = Len(rs)
    \/ rs[i + 1].level <= rs[i].level

\* the ids that a topic id column holds
IdsOf(topic) ==
    LET ids == SelectSeq(topic, LAMBDA t : t # ",")
    IN  [k \in 1..Len(ids) |-> <<ids[k]>>]

RECURSIVE AncestorTopics(_, _, _, _)
\* the topic ids of the ancestors of row i at the depths l and below it, from
\* the root down, the rows whose type holds a word of skipped left out
AncestorTopics(rs, i, l, skipped) ==
    IF l >= rs[i].level THEN <<>>
    ELSE LET a == rs[AncestorAt(rs, i, l)]
         IN  (IF \E w \in skipped : type_mentions(a, w) THEN <<>> ELSE IdsOf(a.topic))
                 \o AncestorTopics(rs, i, l + 1, skipped)

\* import_row is called exactly for the leaf rows that lie beneath no
\* collection row, once for each, with the ancestors' topic ids
ImportsLeaves(skipped) ==
    /\ \A i \in 1..Len(rows) :
          (IsLeafRow(rows, i) /\ ~BeneathCollection(rows, i)) =>
              /\ Cardinality({c \in 1..Len(import_calls) : import_calls[c].row = i}) = 1
              /\ \A c \in 1..Len(import_calls) :
                    import_calls[c].row = i =>
                        import_calls[c].topics = AncestorTopics(rows, i, 0, skipped)
    /\ \A c \in 1..Len(import_calls) :
          /\ IsLeafRow(rows, import_calls[c].row)
          /\ ~BeneathCollection(rows, import_calls[c].row)

C19_WitnessCollection ==
    /\ Imported
    /\ \E i \in 1..Len(rows) :
          /\ rows[i].level > 0
          /\ BeneathCollection(rows, i)
          /\ \E c \in 1..Len(import_calls) :
                import_calls[c].row = AncestorAt(rows, i, rows[i].level - 1)

(***************************************************************************)
(* The tokens of convert_text_components (checked under SpecLine)          *)
(***************************************************************************)
\* a match of <[^>]+> starts at position i of s
TagStartsAt(s, i) ==
    /\ i + 2 <= Len(s)
    /\ s[i] = "<"
    /\ s[i + 1] # ">"
    /\ \E j \in (i + 2)..Len(s) : s[j] = ">"

\* the position where the match that starts at i ends
TagEndFrom(s, i) == CHOOSE j \in (i + 2)..Len(s) :
                        s[j] = ">" /\ \A k \in (i + 1)..(j - 1) : s[k] # ">"

RECURSIVE TagTokens(_, _)
\* the substrings of s that match <[^>]+>, found from position p on, from
\* left to right and without overlap
TagTokens(s, p) ==
    IF \A i \in p..Len(s) : ~TagStartsAt(s, i) THEN <<>>
    ELSE LET i == CHOOSE i \in p..Len(s) :
                      TagStartsAt(s, i) /\ \A k \in p..(i - 1) : ~TagStartsAt(s, k)
             j == TagEndFrom(s, i)
         IN  <<SubSeq(s, i, j)>> \o TagTokens(s, j + 1)

\* the forms in which a text token can be emitted, before escaping: as it
\* is or transliterated, with or without the space that follows a shad
TextForms(part) ==
    LET rs == {part, ACIP_transform(part, FALSE), ACIP_transform(part, TRUE)}
    IN  rs \cup {<<" ">> \o r : r \in rs}

\* C21: the output of convert_text_components holds exactly the tag tokens
\* of its input (the substrings matching <[^>]+>), unmodified, unescaped and
\* in the same order, with exactly one (possibly empty) text token emitted
\* before, between and after them; the text tokens, and only they, are
\* transliterated and escaped.
C21_TagsKeptTextEscaped ==
    Converted =>
        LET tags == TagTokens(line.candidate, 1)
        IN  /\ Len(line.result) = 2 * Len(tags) + 1
            /\ \A k \in 1..Len(tags) : line.result[2 * k] = tags[k]
            /\ \A k \in 0..Len(tags) :
                  /\ ~Contains(line.result[2 * k + 1], <<"<">>)
                  /\ ~Contains(line.result[2 * k + 1], <<">">>)
                  /\ \E r \in TextForms(line.parts[2 * k + 1]) :
                        line.result[2 * k + 1] = escape(r)
            /\ TagTokens(line.components, 1) = tags

\* a paragraph with three tags and more, one of them holding a '<', with an
\* empty text token between two of them and a text token that escaping
\* changes
C21_Witness ==
    /\ Converted
    /\ Len(TagTokens(line.candidate, 1)) >= 3
    /\ \E k \in 1..Len(TagTokens(line.candidate, 1)) :
          Contains(Tail(TagTokens(line.candidate, 1)[k]), <<"<">>)
    /\ \E k \in 1..Len(line.result) :
          ~is_tag(line.parts[k]) /\ line.result[k] = <<>>
    /\ \E k \in 1..Len(line.result) :
          ~is_tag(line.parts[k]) /\ Contains(line.parts[k], <<">">>)

(***************************************************************************)
(* Leading zeros of page labels (checked under SpecParse)                  *)
(***************************************************************************)
\* C22: for every marker token the label returned by clean_page_number
\* never begins with '0', and clean_page_number applied to the label
\* returns it unchanged.
C22_NoLeadingZero ==
    Parsed =>
        \A i \in 1..Len(pages) :
            pages[i].number # None =>
                /\ pages[i].number = <<>> \/ pages[i].number[1] # "0"
                /\ clean_page_number(pages[i].number) = pages[i].number

(***************************************************************************)
(* The plain-text fallback of convert_line (checked under SpecLine)        *)
(***************************************************************************)
\* C23: when the candidate fragment fails validation, convert_line returns
\* the paragraph text as it was before bracket balancing and every rewrite
\* rule, transliterated as a whole, trimmed and escaped; the returned string
\* holds no element tag at all, not even the line-break marker.
C23_FallbackDiscardsMarkup ==
    (Converted /\ ~is_valid_fragment(line.components)) =>
        /\ line.ret =
               escape(Strip(ACIP_transform(line.original_line_str, FALSE), Whitespace))
        /\ line.original_line_str = strip_line(line_str)
        /\ TagTokens(line.ret, 1) = <<>>
        /\ ~Contains(line.ret, <<"<">>)
        /\ ~Contains(line.ret, <<">">>)

\* a paragraph whose brackets the balancing changed and in which a rewrite
\* rule made an element, turned down by the validation
C23_Witness ==
    /\ Converted
    /\ ~line.valid
    /\ balance_parentheses(line.original_line_str, "[", "]") # line.original_line_str
    /\ Contains(line.candidate, HI_OPEN)
    /\ Contains(line.components, LB)
    /\ line.ret # <<>>

(***************************************************************************)
(* Properties of sanitize_str (checked under SpecSanitize)                 *)
(***************************************************************************)
Sanitized == pc = "sanitized"

\* C24: sanitize_str returns a string for every input; the string holds
\* only tab, newline and the printable ASCII characters (no carriage
\* return), holds no newline that a space follows and no two spaces in a
\* row; sanitize_str applied to it returns it unchanged.
C24_SanitizedForm ==
    Sanitized =>
        /\ \A i \in 1..Len(sanitized) : sanitized[i] \in {"a", " ", "\n", "\t"}
        /\ ~Contains(sanitized, <<"\n", " ">>)
        /\ ~Contains(sanitized, <<" ", " ">>)
        /\ sanitize_str(sanitized) = sanitized

\* a string in which the removal of a character brings two spaces
\* together, and one in which it brings a space behind a line break
C24_Witness ==
    /\ Sanitized
    /\ \/ \E c \in NonXmlAscii : Contains(dirty, <<" ", c, " ">>)
       \/ \E c \in NonXmlAscii : Contains(dirty, <<"\r", c, " ">>)
    /\ sanitized # dirty
    /\ sanitized # <<>>

(***************************************************************************)
(* The order of the assembled document (checked under SpecBatch)           *)
(***************************************************************************)
\* the positions of the page breaks of a body, in ascending order
PageBreaks(body) ==
    LET idx == [i \in 1..Len(body) |-> i]
    IN  SelectSeq(idx, LAMBDA i : body[i].kind = "pb")

\* the texts that stand between the k-th page break and the next one
TextsAfterBreak(body, k) ==
    LET pb == PageBreaks(body)
        last == IF k < Len(pb) THEN pb[k + 1] - 1 ELSE Len(body)
    IN  [i \in 1..(last - pb[k]) |-> body[pb[k] + i].text]

\* the non-empty results of convert_line for the paragraphs of a page
NonEmptyConversions(page, mode) ==
    SelectSeq([i \in 1..Len(page.content) |-> convert_line(page.content[i], mode).ret],
              LAMBDA r : r # <<>>)

\* C25: in the body convert_file writes, the page breaks appear in the
\* order of the pages parse_document returned, one for each page, and
\* between one page break and the next stand the converted paragraphs of
\* that page in their page order, each non-empty conversion of a non-blank
\* page exactly once.
C25_AssemblyKeepsOrder ==
    \A k \in 1..Len(written) :
        LET d == written[k]
            ps == PagesOf(d.base)
            pb == PageBreaks(d.body)
        IN  d.base \notin NOT_TRANSCRIPTS =>
                /\ Len(pb) = Len(ps)
                /\ d.body # <<>> => pb[1] = 1
                /\ \A i \in 1..Len(pb) :
                      /\ d.body[pb[i]].n =
                             (IF ps[i].number \in {None, <<>>} THEN <<>> ELSE ps[i].number)
                      /\ ~d.body[pb[i]].blank =>
                             TextsAfterBreak(d.body, i) =
                                 NonEmptyConversions(ps[i], d.variant_mode)

\* a written transcript of two pages with different labels, and one with a
\* page that holds two different converted paragraphs
C25_Witness ==
    \E k \in 1..Len(written) : \E m \in 1..Len(written) :
        /\ written[k].base \notin NOT_TRANSCRIPTS
        /\ Len(PageBreaks(written[k].body)) >= 2
        /\ written[k].body[PageBreaks(written[k].body)[1]].n
               # written[k].body[PageBreaks(written[k].body)[2]].n
        /\ written[m].base \notin NOT_TRANSCRIPTS
        /\ \E i \in 1..Len(PageBreaks(written[m].body)) :
              /\ Len(TextsAfterBreak(written[m].body, i)) >= 2
              /\ TextsAfterBreak(written[m].body, i)[1]
                     # TextsAfterBreak(written[m].body, i)[2]

(***************************************************************************)
(* The page counter (checked under SpecParse)                              *)
(***************************************************************************)
\* C26: after the calls of parse_document made so far, PAGE_COUNT equals the
\* number of pages those calls returned: a call increases it by the length
\* of its result.
C26_PageCountCountsPages == Parsed => PAGE_COUNT = Len(pages)

====
